---- MODULE Spec2Model ----
(***************************************************************************)
(* Model of FlexibleQuantizedCache (flexible_quantized_cache.py): the      *)
(* two-tier key/value cache with a full-precision residual tier and a      *)
(* quantized tier, its update() handler in global, per-layer and per-head  *)
(* mode, and get_seq_length().                                             *)
(*                                                                         *)
(* A tensor is modelled by its number of dimensions and, per head slot,    *)
(* the sequence of its positions along the sequence axis (shape[-2]).      *)
(* The batch and head_dim axes carry no control flow and are abstracted.   *)
(* A position is a record: its index in the layer's history, the head slot *)
(* of the caller's block it came from, whether it is a key or a value, and *)
(* whether it still has the caller's full-precision value.                 *)
(***************************************************************************)
EXTENDS Integers, Sequences, FiniteSets, TLC

\* ---------------------------------------------------------------- bounds
MaxLayers == 2      \* layer entries that may be created
MaxBlock == 2       \* positions in one incoming block: 1..MaxBlock
MaxTokens == 4      \* positions offered to layer 0 over a run
\* positions offered to the layers above 0 together over a run: half of what
\* layer 0 is offered
MaxUpperTokens == MaxTokens \div 2
MaxFailures == 1    \* updates of a run that raise in per-head mode
MaxResidual == 3    \* residual_length ranges over 0..MaxResidual
NumHeads == 3       \* heads of the model = entries per layer in per_head_config
MaxGroups == 2      \* layer groups in a grouping table of the search driver
MaxSpecials == 2    \* entries in a special-layers table of the search driver

Layers == 0..(MaxLayers - 1)
LayerArgs == 0..MaxLayers
Heads == 0..(NumHeads - 1)
HeadCounts == {NumHeads, NumHeads + 1}

VARIABLES
    cfg,                    \* the FlexibleQuantizedCacheConfig the cache was built from
    seen_tokens,            \* self._seen_tokens
    key_cache,              \* self.key_cache: residual tier, one entry per layer
    value_cache,            \* self.value_cache
    quantized_key_cache,    \* self._quantized_key_cache: quantized tier
    quantized_value_cache,  \* self._quantized_value_cache
    ret,                    \* outcome of the last call
    appended,               \* history: positions appended to each layer by calls that returned
    nUpdates,               \* history: update calls that returned, per layer
    offered0,               \* history: positions of all key blocks passed to update at layer 0
    nRaised,                \* history: updates that raised in per-head mode
    quantLog,               \* history: the quantization events of each layer
    built_config,           \* the object FlexibleQuantizedCacheConfig(...) made, or None
    built_cache,            \* the backend cache object made from built_config, or None
    call,                   \* outcome of the last constructor or _quantize call
    codec_log,              \* history: the (nbits, axis) pairs the vanilla backend
                            \* quantized with and the codec instances made for each
    debug_constraint,       \* search driver: the global debug_constraint
    current_layer_grouping, \* search driver: the global current_layer_grouping
    current_special_layers, \* search driver: the global current_special_layers
    current_grouping_quant_template,    \* search driver: the global of that name
    main_pc                 \* search driver: position of the main block

cacheVars == <<cfg, seen_tokens, key_cache, value_cache, quantized_key_cache,
               quantized_value_cache, ret, appended, nUpdates, offered0, nRaised,
               quantLog>>
buildVars == <<built_config, built_cache, call, codec_log>>
searchVars == <<debug_constraint, current_layer_grouping, current_special_layers,
                current_grouping_quant_template, main_pc>>
vars == <<cacheVars, buildVars, searchVars>>

\* ------------------------------------------------------------ tensors
\* torch.zeros(0, ...): a 1-dimensional tensor with no element
Placeholder == [dim |-> 1, rows |-> <<>>]

\* what a call that raised returns
NoTensor == [dim |-> 0, rows |-> <<>>]

\* tensor.shape[-2] of a 3- or 4-dimensional tensor
SeqLen(t) == IF t.rows = <<>> THEN 0 ELSE Len(t.rows[1])

\* the block a caller passes: positions from+1 .. from+len for every head
Block(kv, heads, from, len) ==
    [dim |-> 4,
     rows |-> [h \in 1..heads |->
                 [i \in 1..len |->
                     [pos |-> from + i, head |-> h - 1, kv |-> kv, exact |-> TRUE]]]]

\* mutant of Cat2: the operands are concatenated in the wrong order
Cat2Swapped(a, b) ==
    IF a.dim = 1 THEN b
    ELSE IF b.dim = 1 THEN a
    ELSE [dim |-> a.dim, rows |-> [h \in 1..Len(a.rows) |-> b.rows[h] \o a.rows[h]]]

\* torch.cat([a, b], dim=-2); a 1-dimensional empty tensor is skipped
Cat2(a, b) ==
    IF a.dim = 1 THEN b
    ELSE IF b.dim = 1 THEN a
    ELSE [dim |-> a.dim, rows |-> [h \in 1..Len(a.rows) |-> a.rows[h] \o b.rows[h]]]

Cat3(a, b, c) == Cat2(Cat2(a, b), c)

\* tensor[..., :-k, :]   (for k = 0 the Python slice :-0 is empty)
DropLast(t, k) ==
    [dim |-> t.dim,
     rows |-> [h \in 1..Len(t.rows) |->
                 SubSeq(t.rows[h], 1, IF k = 0 THEN 0 ELSE Len(t.rows[h]) - k)]]

\* tensor[..., -k:, :]   (for k = 0 the Python slice -0: is the whole tensor)
TakeLast(t, k) ==
    [dim |-> t.dim,
     rows |-> [h \in 1..Len(t.rows) |->
                 SubSeq(t.rows[h], IF k = 0 THEN 1 ELSE Len(t.rows[h]) - k + 1,
                        Len(t.rows[h]))]]

\* key_states.transpose(0, 1)[head_idx]: the 3-dimensional slice of one head
HeadSelect(t, head_idx) == [dim |-> 3, rows |-> <<t.rows[head_idx + 1]>>]

\* torch.stack(list).transpose(0, 1): list slot i becomes head slot i
StackHeads(list) == [dim |-> 4, rows |-> [i \in 1..Len(list) |-> list[i].rows[1]]]

\* ------------------------------------------------------------- codec
\* _quantize: a blob that keeps shape and position order, loses precision,
\* and records the axis and bit-width it was made with
Quantize(t, axis, nbits) ==
    [dim |-> t.dim,
     rows |-> [h \in 1..Len(t.rows) |->
                 [i \in 1..Len(t.rows[h]) |-> [t.rows[h][i] EXCEPT !.exact = FALSE]]],
     axis |-> axis,
     nbits |-> nbits]

\* _dequantize: the array held by a blob
Dequantize(q) == [dim |-> q.dim, rows |-> q.rows]

\* ------------------------------------------------------ configuration
\* per_layer_config[layer_idx]
PerLayerConfig == [l \in LayerArgs |-> [nbits_key |-> 2 + l, nbits_value |-> 5 + l]]

\* per_head_config[layer_idx][head_idx]
PerHeadConfig ==
    [l \in LayerArgs |-> [h \in Heads |->
        [nbits_key |-> 10 * (l + 1) + h, nbits_value |-> 100 * (l + 1) + h]]]

Identity == [i \in 1..NumHeads |-> i - 1]
SwapLast == [i \in 1..NumHeads |->
                IF i = NumHeads - 1 THEN NumHeads - 1
                ELSE IF i = NumHeads THEN NumHeads - 2 ELSE i - 1]

\* iteration orders of per_head_config[layer_idx].items() that are explored
HeadOrders == {Identity, SwapLast}

Modes == {"global", "per_layer", "per_head"}

\* FlexibleQuantizedCacheConfig.__init__ / FlexibleQuantizedCache.__init__
Configs ==
    { [residual_length |-> r, force_quant |-> f,
       per_layer_quant |-> (m = "per_layer"), per_head_quant |-> (m = "per_head"),
       head_order |-> o,
       nbits_key |-> 4, nbits_value |-> 8, axis_key |-> 0, axis_value |-> 1] :
         r \in 0..MaxResidual, f \in BOOLEAN, m \in Modes, o \in HeadOrders }


\* ------------------------------------------------ update, global mode
\* mutant of SeenAfter: every layer counts its block
SeenAfterEveryLayer(seen, layer_idx, key_states) == seen + SeqLen(key_states)

\* mutant of SeenAfter: the last layer counts its block, not layer 0
SeenAfterLastLayer(seen, layer_idx, key_states) ==
    IF layer_idx = MaxLayers - 1 THEN seen + SeqLen(key_states) ELSE seen

\* update, lines 165-166: the number of seen tokens after the call
SeenAfter(seen, layer_idx, key_states) ==
    IF layer_idx = 0 THEN seen + SeqLen(key_states) ELSE seen

\* mutant of LayerSkipped: the next free entry is refused too
LayerSkippedOffByOne(entries, layer_idx) == entries <= layer_idx

\* update, line 167: the layer index lies beyond the next free entry
LayerSkipped(entries, layer_idx) == entries < layer_idx

\* mutant of ResolveNbits: the per-layer table is not consulted
ResolveNbitsGlobal(c, layer_idx) ==
    [nbits_key |-> c.nbits_key, nbits_value |-> c.nbits_value]

\* update, lines 171-172: bit-widths of a layer in global / per-layer mode
ResolveNbits(c, layer_idx) ==
    [nbits_key |-> IF ~c.per_layer_quant THEN c.nbits_key
                   ELSE PerLayerConfig[layer_idx].nbits_key,
     nbits_value |-> IF ~c.per_layer_quant THEN c.nbits_value
                     ELSE PerLayerConfig[layer_idx].nbits_value]

\* update, lines 174-197: first append of a layer. Yields the new entry of
\* each of the four stores and the arrays returned.
FirstAppend(c, key_states, value_states, nb) ==
    IF c.force_quant
    THEN IF c.residual_length # 0
         THEN LET tokens_to_keep == SeqLen(key_states) % c.residual_length
                  qk == Quantize(DropLast(key_states, tokens_to_keep), c.axis_key, nb.nbits_key)
                  qv == Quantize(DropLast(value_states, tokens_to_keep), c.axis_value, nb.nbits_value)
                  k == TakeLast(key_states, tokens_to_keep)
                  v == TakeLast(value_states, tokens_to_keep)
              IN [qk |-> qk, qv |-> qv, k |-> k, v |-> v,
                  keys |-> Cat2(Dequantize(qk), k), values |-> Cat2(Dequantize(qv), v),
                  merged |-> FALSE]
         ELSE LET qk == Quantize(key_states, c.axis_key, nb.nbits_key)
                  qv == Quantize(value_states, c.axis_value, nb.nbits_value)
              IN [qk |-> qk, qv |-> qv, k |-> Placeholder, v |-> Placeholder,
                  keys |-> Cat2(Dequantize(qk), Placeholder),
                  values |-> Cat2(Dequantize(qv), Placeholder),
                  merged |-> FALSE]
    ELSE [qk |-> Quantize(key_states, c.axis_key, nb.nbits_key),
          qv |-> Quantize(value_states, c.axis_value, nb.nbits_value),
          k |-> Placeholder, v |-> Placeholder,
          keys |-> key_states, values |-> value_states,
          merged |-> FALSE]

\* update, lines 206-209: the merge condition; arrayDim is 4 for a layer
\* entry and 3 for a head entry (lines 259-262)
MergeFires(c, residual, arrayDim) ==
    /\ residual.dim = arrayDim
    /\ SeqLen(residual) + 1 >= c.residual_length

\* mutant of LaterAppend: every later append merges
LaterAppendEager(c, qk0, qv0, k0, v0, key_states, value_states, nb) ==
    LET keys_to_return == Cat3(Dequantize(qk0), k0, key_states)
        values_to_return == Cat3(Dequantize(qv0), v0, value_states)
    IN [qk |-> Quantize(keys_to_return, c.axis_key, nb.nbits_key),
        qv |-> Quantize(values_to_return, c.axis_value, nb.nbits_value),
        k |-> Placeholder, v |-> Placeholder,
        keys |-> keys_to_return, values |-> values_to_return,
        merged |-> TRUE]

\* mutant of LaterAppend: a merge returns what it stored, dequantized
LaterAppendReturnsStored(c, qk0, qv0, k0, v0, key_states, value_states, nb) ==
    LET keys_to_return == Cat3(Dequantize(qk0), k0, key_states)
        values_to_return == Cat3(Dequantize(qv0), v0, value_states)
        qk == Quantize(keys_to_return, c.axis_key, nb.nbits_key)
        qv == Quantize(values_to_return, c.axis_value, nb.nbits_value)
    IN IF MergeFires(c, k0, 4)
       THEN [qk |-> qk, qv |-> qv,
             k |-> Placeholder, v |-> Placeholder,
             keys |-> Dequantize(qk), values |-> Dequantize(qv),
             merged |-> TRUE]
       ELSE [qk |-> qk0, qv |-> qv0,
             k |-> Cat2(k0, key_states), v |-> Cat2(v0, value_states),
             keys |-> keys_to_return, values |-> values_to_return,
             merged |-> FALSE]

\* mutant of LaterAppend: a merge handles the keys only, the value block is
\* appended to the value residual
LaterAppendMergesKeysOnly(c, qk0, qv0, k0, v0, key_states, value_states, nb) ==
    LET keys_to_return == Cat3(Dequantize(qk0), k0, key_states)
        values_to_return == Cat3(Dequantize(qv0), v0, value_states)
    IN IF MergeFires(c, k0, 4)
       THEN [qk |-> Quantize(keys_to_return, c.axis_key, nb.nbits_key),
             qv |-> qv0,
             k |-> Placeholder, v |-> Cat2(v0, value_states),
             keys |-> keys_to_return, values |-> values_to_return,
             merged |-> TRUE]
       ELSE [qk |-> qk0, qv |-> qv0,
             k |-> Cat2(k0, key_states), v |-> Cat2(v0, value_states),
             keys |-> keys_to_return, values |-> values_to_return,
             merged |-> FALSE]

\* mutant of LaterAppend: a merge quantizes the residual and the block only
LaterAppendDropsQuantized(c, qk0, qv0, k0, v0, key_states, value_states, nb) ==
    LET keys_to_return == Cat3(Dequantize(qk0), k0, key_states)
        values_to_return == Cat3(Dequantize(qv0), v0, value_states)
    IN IF MergeFires(c, k0, 4)
       THEN [qk |-> Quantize(Cat2(k0, key_states), c.axis_key, nb.nbits_key),
             qv |-> Quantize(Cat2(v0, value_states), c.axis_value, nb.nbits_value),
             k |-> Placeholder, v |-> Placeholder,
             keys |-> keys_to_return, values |-> values_to_return,
             merged |-> TRUE]
       ELSE [qk |-> qk0, qv |-> qv0,
             k |-> Cat2(k0, key_states), v |-> Cat2(v0, value_states),
             keys |-> keys_to_return, values |-> values_to_return,
             merged |-> FALSE]

\* mutant of LaterAppend: the merge condition counts the incoming block
LaterAppendCountsBlock(c, qk0, qv0, k0, v0, key_states, value_states, nb) ==
    LET keys_to_return == Cat3(Dequantize(qk0), k0, key_states)
        values_to_return == Cat3(Dequantize(qv0), v0, value_states)
    IN IF k0.dim = 4 /\ SeqLen(k0) + SeqLen(key_states) >= c.residual_length
       THEN [qk |-> Quantize(keys_to_return, c.axis_key, nb.nbits_key),
             qv |-> Quantize(values_to_return, c.axis_value, nb.nbits_value),
             k |-> Placeholder, v |-> Placeholder,
             keys |-> keys_to_return, values |-> values_to_return,
             merged |-> TRUE]
       ELSE [qk |-> qk0, qv |-> qv0,
             k |-> Cat2(k0, key_states), v |-> Cat2(v0, value_states),
             keys |-> keys_to_return, values |-> values_to_return,
             merged |-> FALSE]

\* update, lines 199-218: append to an existing layer entry
LaterAppend(c, qk0, qv0, k0, v0, key_states, value_states, nb) ==
    LET keys_to_return == Cat3(Dequantize(qk0), k0, key_states)
        values_to_return == Cat3(Dequantize(qv0), v0, value_states)
    IN IF MergeFires(c, k0, 4)
       THEN [qk |-> Quantize(keys_to_return, c.axis_key, nb.nbits_key),
             qv |-> Quantize(values_to_return, c.axis_value, nb.nbits_value),
             k |-> Placeholder, v |-> Placeholder,
             keys |-> keys_to_return, values |-> values_to_return,
             merged |-> TRUE]
       ELSE [qk |-> qk0, qv |-> qv0,
             k |-> Cat2(k0, key_states), v |-> Cat2(v0, value_states),
             keys |-> keys_to_return, values |-> values_to_return,
             merged |-> FALSE]

\* ---------------------------------------------- update, per-head mode
\* mutant of HeadCountMismatch: the head count is not checked
HeadCountUnchecked(key_states, layer_idx) == FALSE

\* update, line 223: the head-count check against per_head_config[layer_idx]
HeadCountMismatch(key_states, layer_idx) ==
    Len(key_states.rows) # Cardinality(DOMAIN PerHeadConfig[layer_idx])

\* update, lines 232-252: one iteration of the first-append loop. The head's
\* entries are appended to the lists of the layer, in iteration order.
HeadFirstAppend(c, st, key_states, value_states, head_idx, config) ==
    LET ks == HeadSelect(key_states, head_idx)
        vs == HeadSelect(value_states, head_idx)
    IN IF c.force_quant
       THEN IF c.residual_length # 0
            THEN LET tokens_to_keep == SeqLen(key_states) % c.residual_length
                     qk == Quantize(DropLast(ks, tokens_to_keep), c.axis_key, config.nbits_key)
                     qv == Quantize(DropLast(vs, tokens_to_keep), c.axis_value, config.nbits_value)
                     k == TakeLast(ks, tokens_to_keep)
                     v == TakeLast(vs, tokens_to_keep)
                 IN [st EXCEPT !.qk = Append(@, qk), !.qv = Append(@, qv),
                               !.k = Append(@, k), !.v = Append(@, v),
                               !.keys = Append(@, Cat2(Dequantize(qk), k)),
                               !.values = Append(@, Cat2(Dequantize(qv), v))]
            ELSE LET qk == Quantize(ks, c.axis_key, config.nbits_key)
                     qv == Quantize(vs, c.axis_value, config.nbits_value)
                 IN [st EXCEPT !.qk = Append(@, qk), !.qv = Append(@, qv),
                               !.k = Append(@, Placeholder), !.v = Append(@, Placeholder),
                               !.keys = Append(@, Cat2(Dequantize(qk), Placeholder)),
                               !.values = Append(@, Cat2(Dequantize(qv), Placeholder))]
       ELSE [st EXCEPT !.qk = Append(@, Quantize(ks, c.axis_key, config.nbits_key)),
                       !.qv = Append(@, Quantize(vs, c.axis_value, config.nbits_value)),
                       !.k = Append(@, Placeholder), !.v = Append(@, Placeholder),
                       !.keys = Append(@, ks), !.values = Append(@, vs)]

\* mutant of HeadLaterAppend: the entry of head 0 is never merged
HeadLaterAppendSkipsHeadZero(c, st, key_states, value_states, head_idx, config) ==
    LET ks == HeadSelect(key_states, head_idx)
        vs == HeadSelect(value_states, head_idx)
        keys1 == Append(st.keys, Cat3(Dequantize(st.qk[head_idx + 1]), st.k[head_idx + 1], ks))
        values1 == Append(st.values, Cat3(Dequantize(st.qv[head_idx + 1]), st.v[head_idx + 1], vs))
        st1 == [st EXCEPT !.keys = keys1, !.values = values1]
    IN IF head_idx # 0 /\ MergeFires(c, st.k[head_idx + 1], 3)
       THEN IF head_idx + 1 > Len(keys1)
            THEN [st1 EXCEPT !.status = "IndexError"]
            ELSE [st1 EXCEPT
                    !.qk[head_idx + 1] = Quantize(keys1[head_idx + 1], c.axis_key, config.nbits_key),
                    !.qv[head_idx + 1] = Quantize(values1[head_idx + 1], c.axis_value, config.nbits_value),
                    !.k[head_idx + 1] = Placeholder,
                    !.v[head_idx + 1] = Placeholder,
                    !.merged = @ \cup {head_idx}]
       ELSE [st1 EXCEPT !.k[head_idx + 1] = Cat2(@, ks), !.v[head_idx + 1] = Cat2(@, vs)]

\* update, lines 255-269: one iteration of the later-append loop. Reading
\* keys_to_return[head_idx] beyond the end of the list raises IndexError,
\* which leaves the stores as the earlier iterations wrote them.
HeadLaterAppend(c, st, key_states, value_states, head_idx, config) ==
    LET ks == HeadSelect(key_states, head_idx)
        vs == HeadSelect(value_states, head_idx)
        keys1 == Append(st.keys, Cat3(Dequantize(st.qk[head_idx + 1]), st.k[head_idx + 1], ks))
        values1 == Append(st.values, Cat3(Dequantize(st.qv[head_idx + 1]), st.v[head_idx + 1], vs))
        st1 == [st EXCEPT !.keys = keys1, !.values = values1]
    IN IF MergeFires(c, st.k[head_idx + 1], 3)
       THEN IF head_idx + 1 > Len(keys1)
            THEN [st1 EXCEPT !.status = "IndexError"]
            ELSE [st1 EXCEPT
                    !.qk[head_idx + 1] = Quantize(keys1[head_idx + 1], c.axis_key, config.nbits_key),
                    !.qv[head_idx + 1] = Quantize(values1[head_idx + 1], c.axis_value, config.nbits_value),
                    !.k[head_idx + 1] = Placeholder,
                    !.v[head_idx + 1] = Placeholder,
                    !.merged = @ \cup {head_idx}]
       ELSE [st1 EXCEPT !.k[head_idx + 1] = Cat2(@, ks), !.v[head_idx + 1] = Cat2(@, vs)]

\* update, lines 231 and 254: for head_idx, config in per_head_config[layer_idx].items()
RECURSIVE HeadLoop(_, _, _, _, _, _, _)
HeadLoop(c, st, key_states, value_states, layer_idx, first, i) ==
    IF i > Len(c.head_order) \/ st.status # "ok" THEN st
    ELSE LET head_idx == c.head_order[i]
             config == PerHeadConfig[layer_idx][head_idx]
             next == IF first
                     THEN HeadFirstAppend(c, st, key_states, value_states, head_idx, config)
                     ELSE HeadLaterAppend(c, st, key_states, value_states, head_idx, config)
         IN HeadLoop(c, next, key_states, value_states, layer_idx, first, i + 1)

\* update, lines 225-271: the per-head branch after the head-count check,
\* from the layer's four lists (empty on the first append) to the new lists
\* and the arrays returned
PerHeadAppend(c, qk0, qv0, k0, v0, key_states, value_states, layer_idx, first) ==
    LET st0 == [qk |-> qk0, qv |-> qv0, k |-> k0, v |-> v0,
                keys |-> <<>>, values |-> <<>>, merged |-> {}, status |-> "ok"]
        st == HeadLoop(c, st0, key_states, value_states, layer_idx, first, 1)
    IN IF st.status = "ok"
       THEN [st EXCEPT !.keys = StackHeads(@), !.values = StackHeads(@)]
       ELSE [st EXCEPT !.keys = NoTensor, !.values = NoTensor]

\* --------------------------------------- construction and the backends
\* None: no object (a constructor that raised returns none)
None == [made |-> FALSE]

\* argument values explored for nbits: the ones either backend lists, and 5
NbitsArgs == {1, 2, 3, 4, 5, 8}

\* argument values explored for nbits_key and nbits_value: the default 0 and 5
NbitsOverrideArgs == {0, 5}

\* argument values explored for axis_key and axis_value
AxisArgs == {-1, 0, 1, 2}

\* a per_head_config argument whose heads share a few bit-widths
SharedHeadConfig ==
    [l \in LayerArgs |-> [h \in Heads |->
        [nbits_key |-> IF h = 0 THEN 8 ELSE 4, nbits_value |-> IF h = 0 THEN 4 ELSE 2]]]

\* a table passed as per_layer_config or per_head_config
Table(t) == [made |-> TRUE, table |-> t]

\* the arguments of FlexibleQuantizedCacheConfig(...) that are explored; the
\* other arguments keep their defaults, neither *_path argument is given
ConfigArgs ==
    [nbits : NbitsArgs, nbits_key : NbitsOverrideArgs, nbits_value : NbitsOverrideArgs,
     axis_key : AxisArgs, axis_value : AxisArgs,
     per_layer_quant : BOOLEAN, per_layer_config : {None, Table(PerLayerConfig)},
     per_head_quant : BOOLEAN, per_head_config : {None, Table(SharedHeadConfig)}]

\* mutant of FlexibleQuantizedCacheConfig: both modes may be enabled together
FlexibleQuantizedCacheConfigBothModes(a) ==
    IF a.per_layer_quant /\ ~a.per_layer_config.made
    THEN [status |-> "ValueError: per_layer_config is not provided", config |-> None]
    ELSE IF a.per_head_quant /\ ~a.per_head_config.made
    THEN [status |-> "ValueError: per_head_config is not provided", config |-> None]
    ELSE [status |-> "ok",
          config |-> [made |-> TRUE,
                      nbits |-> a.nbits,
                      nbits_key |-> IF a.nbits_key # 0 THEN a.nbits_key ELSE a.nbits,
                      nbits_value |-> IF a.nbits_value # 0 THEN a.nbits_value ELSE a.nbits,
                      axis_key |-> a.axis_key, axis_value |-> a.axis_value,
                      per_layer_quant |-> a.per_layer_quant,
                      per_layer_config |-> IF a.per_layer_quant THEN a.per_layer_config ELSE None,
                      per_head_quant |-> a.per_head_quant,
                      per_head_config |-> IF a.per_head_quant THEN a.per_head_config ELSE None]]

\* FlexibleQuantizedCacheConfig.__init__ (lines 58-114): the exception raised
\* or the configuration object made
FlexibleQuantizedCacheConfig(a) ==
    IF a.per_head_quant /\ a.per_layer_quant
    THEN [status |-> "ValueError: per_layer_quant and per_head_quant", config |-> None]
    ELSE IF a.per_layer_quant /\ ~a.per_layer_config.made
    THEN [status |-> "ValueError: per_layer_config is not provided", config |-> None]
    ELSE IF a.per_head_quant /\ ~a.per_head_config.made
    THEN [status |-> "ValueError: per_head_config is not provided", config |-> None]
    ELSE [status |-> "ok",
          config |-> [made |-> TRUE,
                      nbits |-> a.nbits,
                      nbits_key |-> IF a.nbits_key # 0 THEN a.nbits_key ELSE a.nbits,
                      nbits_value |-> IF a.nbits_value # 0 THEN a.nbits_value ELSE a.nbits,
                      axis_key |-> a.axis_key, axis_value |-> a.axis_value,
                      per_layer_quant |-> a.per_layer_quant,
                      per_layer_config |-> IF a.per_layer_quant THEN a.per_layer_config ELSE None,
                      per_head_quant |-> a.per_head_quant,
                      per_head_config |-> IF a.per_head_quant THEN a.per_head_config ELSE None]]

Backends == {"quanto", "HQQ", "vanilla"}

\* a dictionary without keys
EmptyDict == [p \in {} |-> None]

\* FlexibleQuantizedCache.__init__ (lines 131-154): the fields copied from
\* the configuration
FlexibleQuantizedCache(backend, cache_config) ==
    [made |-> TRUE, backend |-> backend,
     nbits |-> cache_config.nbits,
     nbits_key |-> cache_config.nbits_key, nbits_value |-> cache_config.nbits_value,
     axis_key |-> cache_config.axis_key, axis_value |-> cache_config.axis_value,
     per_layer_quant |-> cache_config.per_layer_quant,
     per_layer_config |-> cache_config.per_layer_config,
     per_head_quant |-> cache_config.per_head_quant,
     per_head_config |-> cache_config.per_head_config,
     quantilizers |-> EmptyDict]

\* the values of nbits a backend constructor accepts; the vanilla
\* constructor does not look at nbits
AcceptedNbits(backend) ==
    CASE backend = "quanto" -> {2, 4, 8}
      [] backend = "HQQ" -> {1, 2, 3, 4, 8}
      [] backend = "vanilla" -> Int

\* mutant of AcceptedAxes: the quanto backend takes the axes of the others
AcceptedAxesAlike(backend) == {0, 1}

\* the values of axis_key and axis_value a backend constructor accepts
AcceptedAxes(backend) ==
    CASE backend = "quanto" -> {0, -1}
      [] backend = "HQQ" -> {0, 1}
      [] backend = "vanilla" -> {0, 1}

\* FlexibleQuantoQuantizedCache.__init__ (lines 319-348),
\* FlexibleHQQQuantizedCache.__init__ (lines 411-424) and
\* FlexibleVanillaQuantizedCache.__init__ (lines 446-455): the exception
\* raised or the cache object made
BackendCache(backend, cache_config) ==
    LET self == FlexibleQuantizedCache(backend, cache_config)
    IN IF self.nbits \notin AcceptedNbits(backend)
       THEN [status |-> "ValueError: nbits", cache |-> None]
       ELSE IF self.axis_key \notin AcceptedAxes(backend)
       THEN [status |-> "ValueError: axis_key", cache |-> None]
       ELSE IF self.axis_value \notin AcceptedAxes(backend)
       THEN [status |-> "ValueError: axis_value", cache |-> None]
       ELSE [status |-> "ok", cache |-> self]

\* the outcomes of a call into optimum.quanto or HQQ with an argument that
\* the library is not known to accept: it returns, or raises an error of its own
LibraryOutcomes == {"ok", "error raised by the library"}

\* FlexibleQuantoQuantizedCache.get_qtype (lines 350-360)
get_qtype(nbits) ==
    IF nbits = 2 THEN "qint2"
    ELSE IF nbits = 4 THEN "qint4"
    ELSE IF nbits = 8 THEN "qint8"
    ELSE "None"

\* FlexibleQuantoQuantizedCache._quantize (lines 362-368)
QuantoQuantize(self, tensor, axis, nbits, lib) ==
    LET status == IF get_qtype(nbits) = "None" THEN lib ELSE "ok"
    IN [status |-> status, self |-> self, cached |-> FALSE, instance |-> None,
        blob |-> IF status = "ok" THEN Quantize(tensor, axis, nbits) ELSE NoTensor]

\* FlexibleHQQQuantizedCache._quantize (lines 426-438)
HQQQuantize(self, tensor, axis, nbits, lib) ==
    LET status == IF nbits \in {1, 2, 3, 4, 8} THEN "ok" ELSE lib
    IN [status |-> status, self |-> self, cached |-> FALSE, instance |-> None,
        blob |-> IF status = "ok" THEN Quantize(tensor, axis, nbits) ELSE NoTensor]

\* VanillaQuantizer(nbits, self.asym, self.compute_dtype): a new codec
\* instance; made tells how many instances the cache has constructed for
\* the dictionary key, this one included
VanillaQuantizer(nbits, made) == [made |-> TRUE, nbits |-> nbits, nth |-> made]

\* mutant of VanillaQuantize: a codec instance is constructed on every call
VanillaQuantizeUncached(self, tensor, axis, nbits, made) ==
    LET key == <<nbits, axis>>
        quantilizer == VanillaQuantizer(nbits, made + 1)
    IN [status |-> "ok",
        self |-> [self EXCEPT !.quantilizers =
                     [p \in DOMAIN self.quantilizers \cup {key} |->
                         IF p = key THEN quantilizer ELSE self.quantilizers[p]]],
        cached |-> FALSE, instance |-> quantilizer,
        blob |-> Quantize(tensor, axis, nbits)]

\* FlexibleVanillaQuantizedCache._quantize (lines 457-461); made is the
\* number of instances constructed so far for the key (nbits, axis)
VanillaQuantize(self, tensor, axis, nbits, made) ==
    LET key == <<nbits, axis>>
        cached == key \in DOMAIN self.quantilizers
        quantilizers == IF cached THEN self.quantilizers
                        ELSE [p \in DOMAIN self.quantilizers \cup {key} |->
                                 IF p = key THEN VanillaQuantizer(nbits, made + 1)
                                 ELSE self.quantilizers[p]]
    IN [status |-> "ok",
        self |-> [self EXCEPT !.quantilizers = quantilizers],
        cached |-> cached, instance |-> quantilizers[key],
        blob |-> Quantize(tensor, axis, nbits)]

\* update, lines 171-172 and 231: the bit-width update passes to _quantize
\* for the keys or the values of a layer (and head)
CallNbits(self, kv, layer_idx, head_idx) ==
    LET nb == IF self.per_head_quant THEN self.per_head_config.table[layer_idx][head_idx]
              ELSE IF self.per_layer_quant THEN self.per_layer_config.table[layer_idx]
              ELSE [nbits_key |-> self.nbits_key, nbits_value |-> self.nbits_value]
    IN IF kv = "k" THEN nb.nbits_key ELSE nb.nbits_value

\* one call of self._quantize as update makes it: the backend's _quantize on
\* one key or value block (in per-head mode the 3-dimensional slice of head
\* head_idx, lines 221 and 235-263) with the resolved bit-width and the
\* cache's axis.
\* r.status, r.self (the cache afterwards), r.blob, r.instance, r.cached
BackendQuantize(self, kv, layer_idx, head_idx, made, lib) ==
    LET tensor == IF self.per_head_quant
                  THEN HeadSelect(Block(kv, NumHeads, 0, 1), head_idx)
                  ELSE Block(kv, 1, 0, 1)
        axis == IF kv = "k" THEN self.axis_key ELSE self.axis_value
        nbits == CallNbits(self, kv, layer_idx, head_idx)
    IN CASE self.backend = "quanto" -> QuantoQuantize(self, tensor, axis, nbits, lib)
         [] self.backend = "HQQ" -> HQQQuantize(self, tensor, axis, nbits, lib)
         [] self.backend = "vanilla" -> VanillaQuantize(self, tensor, axis, nbits, made)

\* ----------------------------------- search_optuna_adaptive.py (driver)
\* STANDARD_KV_QUANT_CONFIG (line 118)
STANDARD_KV_QUANT_CONFIG == <<"KV8", "K8V4", "KV4", "K4V2", "KV2">>

\* the template of the j-th entry of a SPECIAL_LAYERS table: lists that
\* occur in SPECIAL_LAYERS (lines 48-107)
SpecialTemplate(j) ==
    CASE j = 1 -> <<"KV8", "K4V8", "KV4", "K2V4", "KV2">>
      [] j = 2 -> <<"KV8", "K8V4", "K8V2", "KV4", "K4V2", "KV2">>
      [] OTHER -> <<"KV8", "K4V8", "KV4", "K4V2", "KV2">>

\* the elements of a set of layers in increasing order
RECURSIVE Ascending(_)
Ascending(S) ==
    IF S = {} THEN <<>>
    ELSE LET m == CHOOSE x \in S : \A y \in S : x <= y
         IN <<m>> \o Ascending(S \ {m})

\* the elements of a list or tuple
Elements(s) == {s[i] : i \in 1..Len(s)}

\* a layer group / the key of a special-layer entry: a non-empty list of layers
GroupArgs == {Ascending(S) : S \in (SUBSET Layers) \ {{}}}

\* LAYER_GROUPING_CONFIG[model_name][quant_scheme]: a list of layer groups
GroupingArgs == UNION {[1..n -> GroupArgs] : n \in 1..MaxGroups}

\* SPECIAL_LAYERS[model_name][quant_scheme]: a dict from tuples of layers to
\* templates, in insertion order, with distinct keys
SpecialArgs ==
    UNION {{[j \in 1..n |-> [layers |-> keys[j], template |-> SpecialTemplate(j)]] :
               keys \in {k \in [1..n -> GroupArgs] :
                            \A a, b \in 1..n : a # b => k[a] # k[b]}} :
           n \in 0..MaxSpecials}

\* [i for i in group_quant_template if i != 'KV2'] (line 187)
WithoutKV2(template) == SelectSeq(template, LAMBDA i : i # "KV2")

\* mutant of ScanGroup: the other layers of the group are not looked at
RECURSIVE ScanGroupUnchecked(_, _, _, _, _)
ScanGroupUnchecked(group, special_layers, i, j, group_quant_template) ==
    IF i > Len(group)
    THEN [status |-> "ok", template |-> group_quant_template]
    ELSE IF j > Len(special_layers)
    THEN ScanGroupUnchecked(group, special_layers, i + 1, 1, group_quant_template)
    ELSE IF group[i] \in Elements(special_layers[j].layers)
    THEN ScanGroupUnchecked(group, special_layers, i, j + 1, special_layers[j].template)
    ELSE ScanGroupUnchecked(group, special_layers, i, j + 1, group_quant_template)

\* prepare_layer_grouping_config, lines 179-185: the loops over the layers
\* of one group (i) and the keys of current_special_layers (j)
RECURSIVE ScanGroup(_, _, _, _, _)
ScanGroup(group, special_layers, i, j, group_quant_template) ==
    IF i > Len(group)
    THEN [status |-> "ok", template |-> group_quant_template]
    ELSE IF j > Len(special_layers)
    THEN ScanGroup(group, special_layers, i + 1, 1, group_quant_template)
    ELSE IF group[i] \in Elements(special_layers[j].layers)
    THEN IF \E o \in 1..Len(group) : group[o] \notin Elements(special_layers[j].layers)
         THEN [status |-> "ValueError: special layer breaks the layer grouping",
               template |-> special_layers[j].template]
         ELSE ScanGroup(group, special_layers, i, j + 1, special_layers[j].template)
    ELSE ScanGroup(group, special_layers, i, j + 1, group_quant_template)

\* prepare_layer_grouping_config, lines 177-188: the loop over the groups
\* from group g on; templates is current_grouping_quant_template so far
RECURSIVE PrepareGroups(_, _, _, _, _)
PrepareGroups(templates, layer_grouping, special_layers, debug, g) ==
    IF g > Len(layer_grouping)
    THEN [status |-> "ok", templates |-> templates]
    ELSE LET r == ScanGroup(layer_grouping[g], special_layers, 1, 1,
                            STANDARD_KV_QUANT_CONFIG)
             group_quant_template == IF debug THEN WithoutKV2(r.template) ELSE r.template
         IN IF r.status # "ok"
            THEN [status |-> r.status, templates |-> templates]
            ELSE PrepareGroups(Append(templates, group_quant_template), layer_grouping,
                               special_layers, debug, g + 1)

\* ------------------------------------------------------------ actions
\* the record kept of the last call
Outcome(op, layer_idx, status, len, first, keys, values, merged, value) ==
    [op |-> op, layer |-> layer_idx, status |-> status, len |-> len, first |-> first,
     keys |-> keys, values |-> values, merged |-> merged, value |-> value]

\* the log of a layer before its first quantization
NoEvents == [gap |-> 0, after_first |-> FALSE, prev_left |-> 0, left |-> 0, since |-> 0,
             last_first |-> FALSE]

\* no constructor has run
NoCall == [op |-> "none"]
NoCodecs == [used |-> {}, made |-> EmptyDict]

Unbuilt ==
    /\ built_config = None
    /\ built_cache = None
    /\ call = NoCall
    /\ codec_log = NoCodecs

\* the module globals as the import leaves them (lines 132-136)
Unprepared ==
    /\ debug_constraint = FALSE
    /\ current_layer_grouping = <<>>
    /\ current_special_layers = <<>>
    /\ current_grouping_quant_template = <<>>
    /\ main_pc = "imported"

\* FlexibleQuantizedCache.__init__ (lines 131-154) on a configuration that
\* FlexibleQuantizedCacheConfig.__init__ accepted
Init ==
    /\ cfg \in Configs
    /\ (~cfg.per_head_quant => cfg.head_order = Identity)
    /\ seen_tokens = 0
    /\ key_cache = <<>>
    /\ value_cache = <<>>
    /\ quantized_key_cache = <<>>
    /\ quantized_value_cache = <<>>
    /\ ret = Outcome("init", 0, "ok", 0, FALSE, NoTensor, NoTensor, {}, 0)
    /\ appended = [l \in LayerArgs |-> 0]
    /\ nUpdates = [l \in LayerArgs |-> 0]
    /\ offered0 = 0
    /\ nRaised = 0
    /\ quantLog = [l \in LayerArgs |-> NoEvents]
    /\ Unbuilt
    /\ Unprepared

\* positions appended so far to the layers above 0
RECURSIVE SumUpTo(_, _)
SumUpTo(f, l) == IF l = 0 THEN 0 ELSE f[l] + SumUpTo(f, l - 1)

UpperTokens == SumUpTo(appended, MaxLayers)

\* mutant of Put: an existing layer is written at the last entry
PutAtLast(store, layer_idx, entry) ==
    IF Len(store) = layer_idx THEN Append(store, entry)
    ELSE [store EXCEPT ![Len(store)] = entry]

\* mutant of Put: every update appends a new entry
PutAlwaysAppends(store, layer_idx, entry) == Append(store, entry)

\* update, line 173 / 226: store r as the entry of layer_idx, appended when
\* the layer is new and assigned in place otherwise
Put(store, layer_idx, entry) ==
    IF Len(store) = layer_idx THEN Append(store, entry)
    ELSE [store EXCEPT ![layer_idx + 1] = entry]

\* the log of a layer after a call that wrote its stores. Positions are
\* counted up to residual_length R: a count of R stands for R or more. A
\* call that quantized (every first append, every merge) is an event: from
\* the second event on, gap is the number of positions appended since the
\* previous event, the block of the call included, prev_left the positions
\* the previous event left in the residual and after_first tells that the
\* previous event was the first append; left is what this event leaves in
\* the residual and last_first tells that this event is the first append.
\* Any other call adds its block to the positions appended since the last
\* event.
Logged(log, R, len, first, merged, residual) ==
    LET upToR(n) == IF n >= R THEN R ELSE n
    IN IF first
       THEN [NoEvents EXCEPT !.left = upToR(SeqLen(residual)), !.last_first = TRUE]
       ELSE IF merged
       THEN [gap |-> upToR(log.since + len), after_first |-> log.last_first,
             prev_left |-> log.left, left |-> upToR(SeqLen(residual)), since |-> 0,
             last_first |-> FALSE]
       ELSE [log EXCEPT !.since = upToR(@ + len)]

\* update (lines 156-272)
Update(layer_idx, len, heads) ==
    LET key_states == Block("k", heads, appended[layer_idx], len)
        value_states == Block("v", heads, appended[layer_idx], len)
        first == Len(key_cache) = layer_idx
        raised(status) ==
            /\ ret' = Outcome("update", layer_idx, status, len, first, NoTensor, NoTensor, {}, 0)
            /\ UNCHANGED <<key_cache, value_cache, quantized_key_cache,
                           quantized_value_cache, appended, nUpdates, quantLog>>
        returned(r, merged) ==
            /\ quantLog' = [quantLog EXCEPT ![layer_idx] =
                               Logged(@, cfg.residual_length, len, first, merged # {},
                                      IF cfg.per_head_quant THEN r.k[1] ELSE r.k)]
            /\ quantized_key_cache' = Put(quantized_key_cache, layer_idx, r.qk)
            /\ quantized_value_cache' = Put(quantized_value_cache, layer_idx, r.qv)
            /\ key_cache' = Put(key_cache, layer_idx, r.k)
            /\ value_cache' = Put(value_cache, layer_idx, r.v)
            /\ IF r.status = "ok"
               THEN /\ ret' = Outcome("update", layer_idx, "ok", len, first,
                                      r.keys, r.values, merged, 0)
                    /\ appended' = [appended EXCEPT ![layer_idx] = @ + len]
                    /\ nUpdates' = [nUpdates EXCEPT ![layer_idx] = @ + 1]
               ELSE /\ ret' = Outcome("update", layer_idx, r.status, len, first,
                                      NoTensor, NoTensor, merged, 0)
                    /\ UNCHANGED <<appended, nUpdates>>
    IN /\ (layer_idx # 0 => UpperTokens + len <= MaxUpperTokens)
       /\ (layer_idx = 0 => offered0 + len <= MaxTokens)
       /\ (Len(key_cache) = layer_idx => layer_idx < MaxLayers)
       /\ (~cfg.per_head_quant => heads = NumHeads)
       /\ seen_tokens' = SeenAfter(seen_tokens, layer_idx, key_states)
       /\ offered0' = IF layer_idx = 0 THEN offered0 + len ELSE offered0
       /\ UNCHANGED cfg
       /\ UNCHANGED buildVars
       /\ UNCHANGED searchVars
       /\ IF LayerSkipped(Len(key_cache), layer_idx)
          THEN raised("ValueError: layers are skipped")
          ELSE IF ~cfg.per_head_quant
          THEN LET nb == ResolveNbits(cfg, layer_idx)
                   r == IF first
                        THEN FirstAppend(cfg, key_states, value_states, nb)
                        ELSE LaterAppend(cfg, quantized_key_cache[layer_idx + 1],
                                         quantized_value_cache[layer_idx + 1],
                                         key_cache[layer_idx + 1], value_cache[layer_idx + 1],
                                         key_states, value_states, nb)
               IN \E done \in {r @@ [status |-> "ok"]} :
                     returned(done, IF done.merged THEN Heads ELSE {})
          ELSE IF HeadCountMismatch(key_states, layer_idx)
          THEN raised("ValueError: number of heads")
          ELSE LET r == IF first
                        THEN PerHeadAppend(cfg, <<>>, <<>>, <<>>, <<>>,
                                           key_states, value_states, layer_idx, TRUE)
                        ELSE PerHeadAppend(cfg, quantized_key_cache[layer_idx + 1],
                                           quantized_value_cache[layer_idx + 1],
                                           key_cache[layer_idx + 1], value_cache[layer_idx + 1],
                                           key_states, value_states, layer_idx, FALSE)
               IN \E done \in {r} : returned(done, done.merged)
       /\ (cfg.per_head_quant /\ ret'.status # "ok" => nRaised < MaxFailures)
       /\ nRaised' = IF cfg.per_head_quant /\ ret'.status # "ok" THEN nRaised + 1 ELSE nRaised

\* mutant of SeqLength: no layer gets the minus one
SeqLengthSameForAll(layer_idx) ==
    IF Len(key_cache) <= layer_idx THEN 0 ELSE seen_tokens

\* get_seq_length (lines 274-281): the value returned for layer_idx
SeqLength(layer_idx) ==
    IF Len(key_cache) <= layer_idx THEN 0
    ELSE IF layer_idx = 0 THEN seen_tokens ELSE seen_tokens - 1

\* a call of get_seq_length
GetSeqLength(layer_idx) ==
    /\ ret' = Outcome("get_seq_length", layer_idx, "ok", 0, FALSE, NoTensor, NoTensor, {},
                      SeqLength(layer_idx))
    /\ UNCHANGED <<cfg, seen_tokens, key_cache, value_cache, quantized_key_cache,
                   quantized_value_cache, appended, nUpdates, offered0, nRaised,
                   quantLog>>
    /\ UNCHANGED buildVars
    /\ UNCHANGED searchVars

Next ==
    \/ \E layer_idx \in LayerArgs, len \in 1..MaxBlock, heads \in HeadCounts :
          Update(layer_idx, len, heads)
    \/ \E layer_idx \in Layers : GetSeqLength(layer_idx)

Spec == Init /\ [][Next]_vars

\* ------------------------------------- construction and backend calls
\* the state before FlexibleQuantizedCacheConfig(...) is called
BackendInit ==
    /\ Init
    /\ cfg.residual_length = 0 /\ ~cfg.force_quant
    /\ ~cfg.per_layer_quant /\ ~cfg.per_head_quant

\* cache_config = FlexibleQuantizedCacheConfig(**a)
NewConfig(a) ==
    LET r == FlexibleQuantizedCacheConfig(a)
    IN /\ call.op = "none"
       /\ built_config' = r.config
       /\ call' = [op |-> "config", status |-> r.status, args |-> a]
       /\ UNCHANGED <<built_cache, codec_log>>
       /\ UNCHANGED cacheVars
       /\ UNCHANGED searchVars

\* cache = Flexible{Quanto,HQQ,Vanilla}QuantizedCache(cache_config)
NewCache(backend) ==
    LET r == BackendCache(backend, built_config)
    IN /\ call.op = "config"
       /\ built_config.made
       /\ built_cache' = r.cache
       /\ call' = [op |-> "cache", status |-> r.status, backend |-> backend,
                   config |-> built_config]
       /\ UNCHANGED <<built_config, codec_log>>
       /\ UNCHANGED cacheVars
       /\ UNCHANGED searchVars

\* self._quantize(...) on the keys or the values of a layer (and head)
QuantizeCall(kv, layer_idx, head_idx) ==
    \E lib \in LibraryOutcomes :
        LET self == built_cache
            axis == IF kv = "k" THEN self.axis_key ELSE self.axis_value
            nbits == CallNbits(self, kv, layer_idx, head_idx)
            key == <<nbits, axis>>
            made == IF key \in codec_log.used THEN codec_log.made[key] ELSE 0
            r == BackendQuantize(self, kv, layer_idx, head_idx, made, lib)
            constructed == IF self.backend = "vanilla" /\ ~r.cached THEN made + 1 ELSE made
        IN /\ built_cache.made
           /\ (~self.per_head_quant => head_idx = 0)
           /\ (~self.per_head_quant /\ ~self.per_layer_quant => layer_idx = 0)
           /\ built_cache' = r.self
           /\ call' = [op |-> "_quantize", status |-> r.status, nbits |-> nbits,
                       axis |-> axis, blob |-> r.blob, instance |-> r.instance,
                       cached |-> r.cached]
           /\ codec_log' = IF self.backend = "vanilla"
                           THEN [used |-> codec_log.used \cup {key},
                                 made |-> [p \in codec_log.used \cup {key} |->
                                              IF p = key THEN constructed
                                              ELSE codec_log.made[p]]]
                           ELSE codec_log
           /\ UNCHANGED built_config
           /\ UNCHANGED cacheVars
           /\ UNCHANGED searchVars

BackendNext ==
    \/ \E a \in ConfigArgs : NewConfig(a)
    \/ \E backend \in Backends : NewCache(backend)
    \/ \E kv \in {"k", "v"}, layer_idx \in Layers, head_idx \in Heads :
          QuantizeCall(kv, layer_idx, head_idx)

BackendSpec == BackendInit /\ [][BackendNext]_vars

\* ------------------------------------------------- reading the state
\* indices of the layers that have an entry
Existing == 0..(Len(key_cache) - 1)

\* the storage units of a layer: the layer entry itself, or in per-head
\* mode the entries of its per-head lists, in list order
Units(l) ==
    IF cfg.per_head_quant
    THEN [i \in 1..Len(key_cache[l + 1]) |->
            [k |-> key_cache[l + 1][i], v |-> value_cache[l + 1][i],
             qk |-> quantized_key_cache[l + 1][i], qv |-> quantized_value_cache[l + 1][i]]]
    ELSE << [k |-> key_cache[l + 1], v |-> value_cache[l + 1],
             qk |-> quantized_key_cache[l + 1], qv |-> quantized_value_cache[l + 1]] >>

\* positions held by a residual tensor (none for the placeholder)
ResLen(t) == IF t.dim = 1 THEN 0 ELSE SeqLen(t)

\* every head row of t lists the positions 1..n of kind kv in order
IsHistory(t, n, kv) ==
    /\ t.dim \in {3, 4}
    /\ t.rows # <<>>
    /\ \A h \in 1..Len(t.rows) :
          /\ Len(t.rows[h]) = n
          /\ \A i \in 1..n : t.rows[h][i].pos = i /\ t.rows[h][i].kv = kv

\* the last call was an update that returned
Returned == ret.op = "update" /\ ret.status = "ok"

\* every append to layer l so far was a single position
SingleAppends(l) == appended[l] = nUpdates[l]

\* the tiers of layer l are as a merge leaves them: the residual is empty
\* and the quantized tier covers the n positions of the history
FullyQuantized(l, n) ==
    \A i \in 1..Len(Units(l)) :
        /\ ResLen(Units(l)[i].k) = 0 /\ ResLen(Units(l)[i].v) = 0
        /\ IsHistory(Dequantize(Units(l)[i].qk), n, "k")
        /\ IsHistory(Dequantize(Units(l)[i].qv), n, "v")

Max(a, b) == IF a >= b THEN a ELSE b

\* -------------------------------------------------------------- claims
\* C1: the history returned by an update is exactly the sequence of all
\* positions appended to that layer so far, the block of the call included,
\* in append order, with none dropped, duplicated or reordered, whether or
\* not a merge fired; its length is the number of positions appended.
C1_ReturnedHistory ==
    Returned =>
        /\ IsHistory(ret.keys, appended[ret.layer], "k")
        /\ IsHistory(ret.values, appended[ret.layer], "v")
        /\ Len(ret.keys.rows) = NumHeads /\ Len(ret.values.rows) = NumHeads

\* C1 witness: an update that merged returned the history of at least three
\* appends, one of them a block of several positions.
C1_Witness ==
    /\ Returned /\ ret.merged # {} /\ nUpdates[ret.layer] >= 3
    /\ appended[ret.layer] > nUpdates[ret.layer]

\* C2: with residual_length R >= 1, force_quant off and single positions
\* appended one at a time, the tiers are merged (residual emptied, quantized
\* tier covering the whole history) on exactly the appends numbered R, 2R,
\* 3R, ... and on no other append.
C2_MergeOnMultiples ==
    (/\ Returned /\ cfg.residual_length >= 1 /\ ~cfg.force_quant
     /\ SingleAppends(ret.layer))
    => (FullyQuantized(ret.layer, appended[ret.layer])
           <=> nUpdates[ret.layer] % cfg.residual_length = 0)

\* C3: after every update, for every layer and head, the residual tier holds
\* at most residual_length positions.
C3_ResidualBounded ==
    \A l \in Existing : \A i \in 1..Len(Units(l)) :
        /\ ResLen(Units(l)[i].k) <= cfg.residual_length
        /\ ResLen(Units(l)[i].v) <= cfg.residual_length

\* C4: with residual_length = 0, after every update the residual tier of the
\* layer is empty and the quantized tier covers every position appended.
C4_ZeroResidual ==
    (Returned /\ cfg.residual_length = 0)
    => FullyQuantized(ret.layer, appended[ret.layer])

\* C5: for every existing layer entry, the quantized and the residual tier
\* together hold as many positions as were appended to the layer, and
\* dequantize(quantized) ++ residual lists them in append order (so every
\* quantized position is older than every residual one).
C5_TierInvariant ==
    \A l \in Existing : \A i \in 1..Len(Units(l)) :
        LET u == Units(l)[i]
        IN /\ SeqLen(u.qk) + ResLen(u.k) = appended[l]
           /\ SeqLen(u.qv) + ResLen(u.v) = appended[l]
           /\ IsHistory(Cat2(Dequantize(u.qk), u.k), appended[l], "k")
           /\ IsHistory(Cat2(Dequantize(u.qv), u.v), appended[l], "v")

\* C6: an update whose layer index is greater than the number of entries
\* fails with the skipped-layers ValueError and creates nothing; a layer index
\* equal to that number passes the check and, when the call returns, creates
\* the entry; so entries are only ever created at the next free index.
C6_SequentialAccess ==
    [][ret'.op = "update" =>
         LET n == Len(key_cache)
         IN /\ (ret'.layer > n =>
                   /\ ret'.status = "ValueError: layers are skipped"
                   /\ Len(key_cache') = n)
            /\ (ret'.layer = n => ret'.status # "ValueError: layers are skipped")
            /\ (ret'.layer = n /\ ret'.status = "ok" => Len(key_cache') = n + 1)
            /\ (Len(key_cache') # n => ret'.layer = n /\ Len(key_cache') = n + 1)]_vars

\* C6 witness: with one entry present, an update of layer 2 was refused.
C6_Witness ==
    /\ ret.op = "update" /\ ret.status = "ValueError: layers are skipped"
    /\ Len(key_cache) = 1 /\ ret.layer = 2

\* C7: get_seq_length(0) equals the number of positions appended at layer 0,
\* and for every layer k > 0 of the cache get_seq_length(k) is that value
\* minus 1.
C7_LengthInvariant ==
    \A l \in Existing :
        SeqLength(l) = IF l = 0 THEN appended[0] ELSE appended[0] - 1

\* C8: get_seq_length returns 0 for a layer without entry, seen_tokens for
\* layer 0 and seen_tokens - 1 for any other layer, and modifies nothing.
C8_GetSeqLength ==
    [][ret'.op = "get_seq_length" =>
         /\ ret'.value = IF ret'.layer \notin Existing THEN 0
                         ELSE IF ret'.layer = 0 THEN seen_tokens
                         ELSE seen_tokens - 1
         /\ UNCHANGED <<cfg, seen_tokens, key_cache, value_cache,
                        quantized_key_cache, quantized_value_cache>>]_vars

\* C8 witness: get_seq_length of an existing layer above 0 gave seen_tokens - 1.
C8_Witness ==
    /\ ret.op = "get_seq_length" /\ ret.layer = 1 /\ 1 \in Existing
    /\ seen_tokens >= 2 /\ ret.value = seen_tokens - 1

\* C9: seen_tokens never decreases; an update at layer 0 adds exactly the
\* number of positions of its key block; an update at any other layer, and
\* any other call, leaves it unchanged.
C9_SeenTokens ==
    [][/\ seen_tokens' >= seen_tokens
       /\ (ret'.op = "update" /\ ret'.layer = 0 => seen_tokens' = seen_tokens + ret'.len)
       /\ (ret'.op = "update" /\ ret'.layer # 0 => seen_tokens' = seen_tokens)
       /\ (ret'.op # "update" => seen_tokens' = seen_tokens)]_vars

\* C9 witness: blocks of several sizes were counted at layer 0 and an update
\* of layer 1 followed.
C9_Witness ==
    /\ ret.op = "update" /\ ret.layer = 1 /\ ret.status = "ok"
    /\ seen_tokens >= 3 /\ nUpdates[0] >= 2 /\ appended[0] > nUpdates[0]

\* C10: on the first append of a layer with force_quant off, the whole block
\* becomes the residual and nothing is quantized: after the call the quantized
\* tier is empty and the residual holds all positions of the block.
C10_BlockBecomesResidual ==
    (Returned /\ ret.first /\ ~cfg.force_quant) =>
        \A i \in 1..Len(Units(ret.layer)) :
            LET u == Units(ret.layer)[i]
            IN /\ SeqLen(u.qk) = 0 /\ SeqLen(u.qv) = 0
               /\ ResLen(u.k) = ret.len /\ ResLen(u.v) = ret.len

\* C11: on the first append of a layer with force_quant on and
\* residual_length R > 0, for a block of L positions (L a multiple of R
\* included) the quantized tier covers exactly the first L - (L mod R)
\* positions and the residual tier holds exactly the last L mod R positions.
C11_ForceQuantSplit ==
    (Returned /\ ret.first /\ cfg.force_quant /\ cfg.residual_length > 0) =>
        \A i \in 1..Len(Units(ret.layer)) :
            LET u == Units(ret.layer)[i]
                kept == ret.len % cfg.residual_length
            IN /\ SeqLen(u.qk) = ret.len - kept /\ SeqLen(u.qv) = ret.len - kept
               /\ ResLen(u.k) = kept /\ ResLen(u.v) = kept
               /\ IsHistory(Cat2(Dequantize(u.qk), u.k), ret.len, "k")
               /\ IsHistory(Cat2(Dequantize(u.qv), u.v), ret.len, "v")

\* C14: in per-head mode, whatever the iteration order of the layer's table,
\* slot i of the key and value history returned by an update holds the
\* positions that were supplied in head slot i of the input blocks, on the
\* first append and on every later one.
C14_HeadOrder ==
    (Returned /\ cfg.per_head_quant) =>
        /\ Len(ret.keys.rows) = NumHeads /\ Len(ret.values.rows) = NumHeads
        /\ \A h \in 1..Len(ret.keys.rows) :
              /\ \A i \in 1..Len(ret.keys.rows[h]) : ret.keys.rows[h][i].head = h - 1
              /\ \A i \in 1..Len(ret.values.rows[h]) : ret.values.rows[h][i].head = h - 1

\* C15: in per-head mode the tiers of head h are made from head h's previous
\* tiers and head h's slice of the input only: the residual and the
\* quantized tier of head h never hold a position supplied in another head
\* slot.
C15_HeadIsolation ==
    cfg.per_head_quant =>
        \A l \in Existing : \A s \in 1..Len(Units(l)) :
            LET u == Units(l)[s]
                own(t) == \A r \in 1..Len(t.rows) : \A i \in 1..Len(t.rows[r]) :
                              t.rows[r][i].head = s - 1
            IN own(u.k) /\ own(u.v) /\ own(u.qk) /\ own(u.qv)

\* C12: in per-head mode, an update whose block has a head count different
\* from the number of entries of per_head_config[layer_idx] fails with a
\* ValueError (the head-count one, unless the layer index is refused first)
\* and creates or modifies no layer entry and no head entry in any of the
\* four stores.
C12_HeadCountMismatch ==
    [][\A layer_idx \in LayerArgs, len \in 1..MaxBlock, heads \in HeadCounts :
          (/\ cfg.per_head_quant
           /\ heads # Cardinality(DOMAIN PerHeadConfig[layer_idx])
           /\ ret'.op = "update" /\ ret'.layer = layer_idx /\ ret'.len = len
           /\ Update(layer_idx, len, heads))
          => /\ ret'.status = IF layer_idx > Len(key_cache)
                              THEN "ValueError: layers are skipped"
                              ELSE "ValueError: number of heads"
             /\ UNCHANGED <<key_cache, value_cache, quantized_key_cache,
                            quantized_value_cache>>]_vars

\* C12 witness: a block with a wrong head count was refused at a layer that
\* already held two positions per head.
C12_Witness ==
    /\ cfg.per_head_quant /\ ret.op = "update"
    /\ ret.status = "ValueError: number of heads"
    /\ ~ret.first /\ ret.layer = 0 /\ appended[0] >= 2

\* the head slot of the input blocks whose positions a per-head unit holds
UnitHead(u) == Cat2(Dequantize(u.qk), u.k).rows[1][1].head

\* C16: every blob made by update for a layer (and head) was quantized with
\* the resolved bit-widths: the global nbits_key / nbits_value when no
\* override mode is active, the layer's entry of the per-layer table in
\* per-layer mode, the entry of the head whose slice was quantized in
\* per-head mode, on the first append and on every merge; the axes are
\* always the global axis_key / axis_value.
C16_ResolvedBitWidths ==
    \A l \in Existing : \A i \in 1..Len(Units(l)) :
        LET u == Units(l)[i]
            nb == IF cfg.per_head_quant THEN PerHeadConfig[l][UnitHead(u)]
                  ELSE IF cfg.per_layer_quant THEN PerLayerConfig[l]
                  ELSE [nbits_key |-> cfg.nbits_key, nbits_value |-> cfg.nbits_value]
        IN /\ u.qk.nbits = nb.nbits_key /\ u.qv.nbits = nb.nbits_value
           /\ u.qk.axis = cfg.axis_key /\ u.qv.axis = cfg.axis_value

\* C16 witness: a merge re-quantized layer 1 in per-layer mode, whose table
\* entry differs from that of layer 0 and from the global bit-widths.
C16_Witness ==
    /\ Returned /\ cfg.per_layer_quant /\ ret.layer = 1 /\ ret.merged = Heads
    /\ quantized_key_cache[2].nbits = PerLayerConfig[1].nbits_key
    /\ quantized_key_cache[2].nbits # cfg.nbits_key

\* C19 (as claimed): for residual_length R >= 1, between two consecutive
\* quantization events of a layer (the one of the first append counts) at
\* least R positions are appended to the layer, for any block sizes and
\* either force_quant setting.
C19_Original ==
    cfg.residual_length >= 1 =>
        \A l \in Layers :
            quantLog[l].gap > 0 => quantLog[l].gap >= cfg.residual_length

\* C19 (amended): for R >= 1 and any block sizes, at least R positions are
\* appended between two consecutive quantization events whenever the earlier
\* one left the residual empty, which every merge and the first append
\* without force_quant do; only a first append with force_quant leaves
\* k >= 1 positions in the residual, and the first merge then follows once
\* max(1, R - k) positions have been appended.
C19_QuantizationSpacing ==
    cfg.residual_length >= 1 =>
        \A l \in Layers :
            LET log == quantLog[l]
            IN log.gap > 0 =>
                  /\ log.gap >= Max(1, cfg.residual_length - log.prev_left)
                  /\ (log.prev_left = 0 => log.gap >= cfg.residual_length)
                  /\ (log.prev_left > 0 => cfg.force_quant /\ log.after_first)

\* C19 witness: with R = 2 and force_quant, the first append of one position
\* quantized and kept that position as residual, and the next append of one
\* position merged.
C19_Witness ==
    /\ cfg.residual_length = 2 /\ cfg.force_quant /\ Returned /\ ret.merged = Heads
    /\ quantLog[ret.layer].after_first /\ quantLog[ret.layer].gap = 1
    /\ quantLog[ret.layer].prev_left = 1

\* C13: a FlexibleQuantizedCacheConfig(...) call with per_layer_quant and
\* per_head_quant both enabled raises the ValueError and makes no
\* configuration, whatever tables are passed; hence no configuration and no
\* cache exists with both modes enabled.
C13_ExclusiveModes ==
    /\ (call.op = "config" /\ call.args.per_layer_quant /\ call.args.per_head_quant
          => /\ call.status = "ValueError: per_layer_quant and per_head_quant"
             /\ ~built_config.made
             /\ ~built_cache.made)
    /\ (built_config.made => ~(built_config.per_layer_quant /\ built_config.per_head_quant))
    /\ (built_cache.made => ~(built_cache.per_layer_quant /\ built_cache.per_head_quant))
    /\ ~(cfg.per_layer_quant /\ cfg.per_head_quant)

\* both modes enabled, both tables passed: the call raised
C13_Witness ==
    /\ call.op = "config"
    /\ call.args.per_layer_quant /\ call.args.per_head_quant
    /\ call.args.per_layer_config.made /\ call.args.per_head_config.made
    /\ call.status = "ValueError: per_layer_quant and per_head_quant"

\* C17: on the quanto and the HQQ backend a _quantize call whose bit-width
\* is outside the backend's supported set ({2,4,8}, {1,2,3,4,8}) raises the
\* ValueError and makes no blob (the configuration that leads to such a call
\* having passed both constructors).
C17_SupportedBitWidths ==
    call.op = "_quantize" =>
        LET supported == CASE built_cache.backend = "quanto" -> {2, 4, 8}
                           [] built_cache.backend = "HQQ" -> {1, 2, 3, 4, 8}
                           [] built_cache.backend = "vanilla" -> {call.nbits}
        IN call.nbits \notin supported
              => call.status = "ValueError: nbits" /\ ~("nbits" \in DOMAIN call.blob)

\* C18: a backend constructor raises the ValueError and makes no cache when
\* axis_key or axis_value is outside {0, -1} (quanto), {0, 1} (HQQ), {0, 1}
\* (vanilla); with both axes in the set and nbits supported by the backend
\* (any nbits for vanilla) it makes the cache; so, nbits being supported, it
\* raises exactly when an axis is outside the set.
C18_AxisCheck ==
    call.op = "cache" =>
        LET c == call.config
            axes == CASE call.backend = "quanto" -> {0, -1}
                      [] call.backend = "HQQ" -> {0, 1}
                      [] call.backend = "vanilla" -> {0, 1}
            nbitsOk == CASE call.backend = "quanto" -> c.nbits \in {2, 4, 8}
                         [] call.backend = "HQQ" -> c.nbits \in {1, 2, 3, 4, 8}
                         [] call.backend = "vanilla" -> TRUE
            axesOk == c.axis_key \in axes /\ c.axis_value \in axes
            raised == call.status \in {"ValueError: nbits", "ValueError: axis_key",
                                       "ValueError: axis_value"}
        IN /\ (~axesOk => raised /\ ~built_cache.made)
           /\ (axesOk /\ nbitsOk
                 => /\ call.status = "ok"
                    /\ built_cache.made
                    /\ built_cache.backend = call.backend
                    /\ built_cache.axis_key = c.axis_key
                    /\ built_cache.axis_value = c.axis_value)
           /\ (nbitsOk => (raised <=> ~axesOk))

\* the quanto constructor refused axis_value = 1, which the others accept
C18_Witness ==
    /\ call.op = "cache"
    /\ call.backend = "quanto"
    /\ call.config.nbits = 4
    /\ call.config.axis_key = 0
    /\ call.config.axis_value = 1
    /\ call.status = "ValueError: axis_value"
    /\ ~built_cache.made

\* C20: in a vanilla cache the keys of self.quantilizers are the
\* (nbits, axis) pairs quantized with so far; for each of them exactly one
\* instance was ever constructed and it is the one stored (never replaced,
\* never removed); the call just made used the stored instance.
C20_OneCodecPerPair ==
    built_cache.made /\ built_cache.backend = "vanilla" =>
        /\ DOMAIN built_cache.quantilizers = codec_log.used
        /\ \A p \in codec_log.used :
              /\ codec_log.made[p] = 1
              /\ built_cache.quantilizers[p] = [made |-> TRUE, nbits |-> p[1], nth |-> 1]
        /\ (call.op = "_quantize"
              => /\ <<call.nbits, call.axis>> \in codec_log.used
                 /\ call.instance = built_cache.quantilizers[<<call.nbits, call.axis>>])

\* a repeated pair, with another pair in the dictionary
C20_Witness ==
    /\ built_cache.made /\ built_cache.backend = "vanilla"
    /\ call.op = "_quantize" /\ call.cached
    /\ Cardinality(DOMAIN built_cache.quantilizers) >= 2

\* the storage units of layer l in the given stores (see Units)
UnitsIn(keys, values, qkeys, qvalues, l) ==
    IF cfg.per_head_quant
    THEN [i \in 1..Len(keys[l + 1]) |->
            [k |-> keys[l + 1][i], v |-> values[l + 1][i],
             qk |-> qkeys[l + 1][i], qv |-> qvalues[l + 1][i]]]
    ELSE << [k |-> keys[l + 1], v |-> values[l + 1],
             qk |-> qkeys[l + 1], qv |-> qvalues[l + 1]] >>

\* C21: an update of an existing layer entry that returns merges a unit
\* (the layer, or in per-head mode each head entry) if and only if the
\* unit's residual before the call is an array (not the empty placeholder)
\* holding r positions with r + 1 >= residual_length, whatever the number of
\* positions of the block; when it does not merge, the block (the head's
\* slice of it) is appended to the end of the residual and both quantized
\* tiers are left as they were.
C21_MergeDecision ==
    [][(ret'.op = "update" /\ ret'.status = "ok" /\ ~ret'.first) =>
          LET l == ret'.layer
              key_states == Block("k", NumHeads, appended[l], ret'.len)
              value_states == Block("v", NumHeads, appended[l], ret'.len)
              pre == Units(l)
              post == UnitsIn(key_cache', value_cache', quantized_key_cache',
                              quantized_value_cache', l)
          IN /\ Len(post) = Len(pre)
             /\ \A i \in 1..Len(pre) :
                   LET fires == /\ pre[i].k.dim # 1
                                /\ ResLen(pre[i].k) + 1 >= cfg.residual_length
                       merged == IF cfg.per_head_quant THEN (i - 1) \in ret'.merged
                                 ELSE ret'.merged = Heads
                       ks == IF cfg.per_head_quant THEN HeadSelect(key_states, i - 1)
                             ELSE key_states
                       vs == IF cfg.per_head_quant THEN HeadSelect(value_states, i - 1)
                             ELSE value_states
                   IN /\ merged <=> fires
                      /\ (~cfg.per_head_quant /\ ~merged => ret'.merged = {})
                      /\ (~fires =>
                            /\ post[i].qk = pre[i].qk /\ post[i].qv = pre[i].qv
                            /\ post[i].k = (IF pre[i].k.dim = 1 THEN ks
                                            ELSE [dim |-> ks.dim,
                                                  rows |-> [h \in 1..Len(ks.rows) |->
                                                              pre[i].k.rows[h] \o ks.rows[h]]])
                            /\ post[i].v = (IF pre[i].v.dim = 1 THEN vs
                                            ELSE [dim |-> vs.dim,
                                                  rows |-> [h \in 1..Len(vs.rows) |->
                                                              pre[i].v.rows[h] \o vs.rows[h]]]))]_vars

\* C21 witness: with residual_length 3 a block of two positions was appended
\* to a residual array of one position without a merge, although the
\* residual then holds 3 positions.
C21_Witness ==
    /\ Returned /\ ~ret.first /\ cfg.residual_length = 3 /\ ~cfg.per_head_quant
    /\ ret.len = 2 /\ ret.merged = {}
    /\ ResLen(key_cache[ret.layer + 1]) = 3

\* C22: an update that merged left, in every unit it merged, an empty
\* residual and a quantized tier that is the blob of the whole history the
\* call returned (dequantized old quantized tier ++ old residual ++ block),
\* every position of it quantized anew: the quantized tier covers every
\* position appended to the layer so far, for keys and for values.
C22_MergeReplacesWholesale ==
    (Returned /\ ret.merged # {}) =>
        LET l == ret.layer
        IN \A i \in 1..Len(Units(l)) :
              (cfg.per_head_quant => (i - 1) \in ret.merged) =>
                 LET u == Units(l)[i]
                     keys == IF cfg.per_head_quant THEN HeadSelect(ret.keys, i - 1)
                             ELSE ret.keys
                     values == IF cfg.per_head_quant THEN HeadSelect(ret.values, i - 1)
                               ELSE ret.values
                     anew(t) == [h \in 1..Len(t.rows) |->
                                   [j \in 1..Len(t.rows[h]) |->
                                       [t.rows[h][j] EXCEPT !.exact = FALSE]]]
                 IN /\ u.k = Placeholder /\ u.v = Placeholder
                    /\ u.qk.rows = anew(keys) /\ u.qv.rows = anew(values)
                    /\ IsHistory(Dequantize(u.qk), appended[l], "k")
                    /\ IsHistory(Dequantize(u.qv), appended[l], "v")

\* C22 witness: a merge on a block of two positions replaced the quantized
\* tier the first append had made, the residual holding one position.
C22_Witness ==
    /\ Returned /\ ret.merged = Heads /\ ~cfg.force_quant
    /\ ret.len = 2 /\ nUpdates[ret.layer] = 3 /\ appended[ret.layer] = 4

\* C23: the four stores always have the same number of layer entries; that
\* number never decreases; an update that returns with layer_idx equal to
\* the number of entries adds exactly one entry, at that index, to each
\* store; an update with a smaller layer_idx, and any call that raises on
\* its checks, adds none.
C23_AppendOnlyEntries ==
    [][LET n == Len(key_cache)
       IN /\ Len(value_cache') = Len(key_cache')
          /\ Len(quantized_key_cache') = Len(key_cache')
          /\ Len(quantized_value_cache') = Len(key_cache')
          /\ Len(key_cache') >= n
          /\ (ret'.op = "update" /\ ret'.status = "ok" /\ ret'.layer = n
                => /\ Len(key_cache') = n + 1
                   /\ ret'.first
                   /\ \A l \in 1..n :
                         /\ key_cache'[l] = key_cache[l]
                         /\ value_cache'[l] = value_cache[l]
                         /\ quantized_key_cache'[l] = quantized_key_cache[l]
                         /\ quantized_value_cache'[l] = quantized_value_cache[l])
          /\ (ret'.op = "update" /\ ret'.layer < n => Len(key_cache') = n)
          /\ (ret'.op = "update" /\ ret'.status \in {"ValueError: layers are skipped",
                                                    "ValueError: number of heads"}
                => Len(key_cache') = n)
          /\ (ret'.op # "update" => Len(key_cache') = n)]_vars

\* C23 witness: the second entry was created after the first had been
\* appended to again.
C23_Witness ==
    /\ Returned /\ ret.first /\ ret.layer = 1 /\ Len(key_cache) = 2
    /\ nUpdates[0] >= 2

\* C24: an update that fails with the skipped-layers ValueError or with the
\* per-head head-count ValueError, at any layer index, leaves seen_tokens,
\* the four stores (hence every tier and the number of entries) and so every
\* value of get_seq_length as they were before the call.
C24_FailedUpdateNoEffect ==
    [][(/\ ret'.op = "update"
        /\ ret'.status \in {"ValueError: layers are skipped", "ValueError: number of heads"})
       => /\ UNCHANGED <<seen_tokens, key_cache, value_cache, quantized_key_cache,
                         quantized_value_cache>>
          /\ \A l \in LayerArgs : SeqLength(l)' = SeqLength(l)]_vars

\* C25: an update of layer L, whether it returns or raises, leaves the
\* entries of every other layer in the four stores as they were; it changes
\* seen_tokens only when L = 0.
C25_OtherLayersUntouched ==
    [][ret'.op = "update" =>
          /\ \A l \in 1..Len(key_cache) :
                l # ret'.layer + 1 =>
                   /\ key_cache'[l] = key_cache[l]
                   /\ value_cache'[l] = value_cache[l]
                   /\ quantized_key_cache'[l] = quantized_key_cache[l]
                   /\ quantized_value_cache'[l] = quantized_value_cache[l]
          /\ (ret'.layer # 0 => seen_tokens' = seen_tokens)]_vars

\* C25 witness: layer 0 was merged while layer 1 held an entry.
C25_Witness ==
    /\ Returned /\ ret.layer = 0 /\ ret.merged # {} /\ Len(key_cache) = 2

\* C26: key and value blocks having the same number of positions, after
\* every call the key and the value residual of every unit are both the
\* placeholder or both arrays of the same length, and the key and the value
\* quantized tier cover the same positions; an update that merged a unit
\* replaced both of its quantized tiers and emptied both of its residuals.
C26_KeyValueLockstep ==
    \A l \in Existing : \A i \in 1..Len(Units(l)) :
        LET u == Units(l)[i]
            where(t) == [h \in 1..Len(t.rows) |->
                           [j \in 1..Len(t.rows[h]) |->
                               <<t.rows[h][j].pos, t.rows[h][j].head>>]]
        IN /\ u.k.dim = u.v.dim
           /\ ResLen(u.k) = ResLen(u.v)
           /\ where(u.k) = where(u.v)
           /\ where(u.qk) = where(u.qv)
           /\ (/\ Returned /\ ret.layer = l
               /\ (IF cfg.per_head_quant THEN (i - 1) \in ret.merged ELSE ret.merged # {})
               => /\ u.k = Placeholder /\ u.v = Placeholder
                  /\ SeqLen(u.qk) = appended[l] /\ SeqLen(u.qv) = appended[l])

\* C26 witness: a unit holds two positions in both residuals behind a
\* non-empty quantized tier, after an append of a block of two.
C26_Witness ==
    /\ Returned /\ ~cfg.per_head_quant /\ ~ret.first /\ ret.len = 2
    /\ ResLen(key_cache[ret.layer + 1]) = 2 /\ ResLen(value_cache[ret.layer + 1]) = 2
    /\ SeqLen(quantized_key_cache[ret.layer + 1]) >= 1

\* ------------------------------------------- the execution loop's calls
\* the layer the execution loop updates next: within a step the layers are
\* updated in increasing order, each once; a new step starts at layer 0
NextLayer ==
    IF \E l \in Layers : nUpdates[l] < nUpdates[0]
    THEN CHOOSE l \in Layers :
            /\ nUpdates[l] < nUpdates[0]
            /\ \A m \in Layers : m < l => nUpdates[m] = nUpdates[0]
    ELSE 0

\* the number of positions the next update appends: the first step appends
\* one block length to every layer, every later step one position
StepLens ==
    IF nUpdates[NextLayer] > 0 THEN {1}
    ELSE IF NextLayer = 0 THEN 1..MaxBlock
    ELSE {appended[0]}

\* no call of the loop has raised (following the protocol, only a per-head
\* update can raise: the IndexError of a table whose keys are out of order)
LoopRunning == nRaised = 0

\* one update of the execution loop; the loop ends when a call raises
ProtocolUpdate(len) ==
    /\ LoopRunning
    /\ len \in StepLens
    /\ Update(NextLayer, len, NumHeads)

\* get_seq_length called by the running loop, between two updates
ProtocolQuery(layer_idx) ==
    /\ LoopRunning
    /\ GetSeqLength(layer_idx)

ProtocolNext ==
    \/ \E len \in 1..MaxBlock : ProtocolUpdate(len)
    \/ \E layer_idx \in Layers : ProtocolQuery(layer_idx)

ProtocolSpec == Init /\ [][ProtocolNext]_vars

\* positions stored for layer l: quantized tier plus residual of unit i
Stored(l, i) == SeqLen(Units(l)[i].qk) + ResLen(Units(l)[i].k)

\* C27: the execution loop following the call protocol, every step after
\* the first appending one position, get_seq_length(k) for a layer k > 0
\* that has an entry returns the number of positions stored for layer k
\* (quantized plus residual, of every head) when it is called after layer
\* 0's update of a step and before layer k's, and one less than the number
\* stored when it is called after layer k's update of the step.
C27_ProtocolLengths ==
    (ret.op = "get_seq_length" /\ ret.layer > 0 /\ ret.layer \in Existing) =>
        \A i \in 1..Len(Units(ret.layer)) :
            IF nUpdates[ret.layer] < nUpdates[0]
            THEN ret.value = Stored(ret.layer, i)
            ELSE ret.value = Stored(ret.layer, i) - 1

\* C27 witness: in the second step get_seq_length(1) was called between the
\* updates of layer 0 and layer 1, after a first step of two positions.
C27_Witness ==
    /\ ret.op = "get_seq_length" /\ ret.layer = 1 /\ 1 \in Existing
    /\ nUpdates[0] = 2 /\ nUpdates[1] = 1 /\ appended[1] = 2
    /\ ret.value = 2

\* the unit of ret.layer whose history row i of the returned arrays holds:
\* the first append fills the per-head lists in iteration order, later
\* appends read them by head index
RowUnit(i) ==
    IF ~cfg.per_head_quant THEN Units(ret.layer)[1]
    ELSE IF ret.first THEN Units(ret.layer)[i]
    ELSE Units(ret.layer)[cfg.head_order[i] + 1]

\* C28 (as claimed): every position of the block passed to an update is
\* returned by that call at full precision, on the first append and on later
\* ones, with force_quant on or off.
C28_Original ==
    Returned =>
        \A h \in 1..Len(ret.keys.rows) : \A j \in 1..Len(ret.keys.rows[h]) :
            j > Len(ret.keys.rows[h]) - ret.len
               => ret.keys.rows[h][j].exact /\ ret.values.rows[h][j].exact

\* C28 (amended): every position of the block is returned at full precision
\* by a later append, and by a first append with force_quant off; a first
\* append with force_quant on returns at full precision only the positions
\* it left in the residual and returns the ones it quantized in dequantized
\* form. On a later append that does not merge, a position of an earlier
\* call is returned in dequantized form exactly if it is in the quantized
\* tier.
C28_ReturnedPrecision ==
    Returned =>
        \A h \in 1..Len(ret.keys.rows) : \A j \in 1..Len(ret.keys.rows[h]) :
            LET n == Len(ret.keys.rows[h])
                quantized == SeqLen(RowUnit(h).qk)
                k == ret.keys.rows[h][j]
                v == ret.values.rows[h][j]
            IN /\ k.exact = v.exact
               /\ (j > n - ret.len /\ ~(ret.first /\ cfg.force_quant) => k.exact)
               /\ (ret.first /\ cfg.force_quant => (k.exact <=> j > quantized))
               /\ (~ret.first /\ ret.merged = {} => (k.exact <=> j > quantized))

\* C28 witness: a first append of two positions with force_quant on and
\* residual_length 0 returned both positions in dequantized form.
C28_Witness ==
    /\ Returned /\ ret.first /\ cfg.force_quant /\ cfg.residual_length = 0
    /\ ret.len = 2
    /\ \A h \in 1..Len(ret.keys.rows) : \A j \in 1..2 : ~ret.keys.rows[h][j].exact

\* C29: in per-head mode with the table keys of a layer iterated in index
\* order, after every call all head entries of a layer have residuals of
\* the same form and length and quantized tiers of the same number of
\* positions, for keys and for values, and an update that returned merged
\* either every head of the layer or none.
C29_HeadsLockstep ==
    (cfg.per_head_quant /\ cfg.head_order = Identity) =>
        /\ \A l \in Existing :
              /\ Len(Units(l)) = NumHeads
              /\ \A i, j \in 1..Len(Units(l)) :
                    LET a == Units(l)[i]
                        b == Units(l)[j]
                    IN /\ a.k.dim = b.k.dim /\ a.v.dim = b.v.dim
                       /\ ResLen(a.k) = ResLen(b.k) /\ ResLen(a.v) = ResLen(b.v)
                       /\ SeqLen(a.qk) = SeqLen(b.qk) /\ SeqLen(a.qv) = SeqLen(b.qv)
        /\ (ret.op = "update" => ret.merged \in {{}, Heads})

\* C29 witness: a per-head update merged all heads of a layer that had
\* been appended to twice before.
C29_Witness ==
    /\ cfg.per_head_quant /\ cfg.head_order = Identity
    /\ Returned /\ ret.merged = Heads /\ nUpdates[ret.layer] >= 3

\* -------------------------------------- the search driver's main block
\* __main__, lines 263-270: the command line sets the globals
ParseArgs(debug) ==
    /\ main_pc = "imported"
    /\ debug_constraint' = debug
    /\ main_pc' = "parsed"
    /\ UNCHANGED <<current_layer_grouping, current_special_layers,
                   current_grouping_quant_template>>
    /\ UNCHANGED <<cacheVars, buildVars>>

\* __main__, line 281: prepare_layer_grouping_config(model, quant_scheme),
\* the tables of the model and scheme being layer_grouping and special_layers
PrepareLayerGroupingConfig ==
    /\ main_pc = "parsed"
    /\ \E layer_grouping \in GroupingArgs, special_layers \in SpecialArgs :
          LET r == PrepareGroups(current_grouping_quant_template, layer_grouping,
                                 special_layers, debug_constraint, 1)
          IN /\ current_layer_grouping' = layer_grouping
             /\ current_special_layers' = special_layers
             /\ current_grouping_quant_template' = r.templates
             /\ main_pc' = r.status
    /\ UNCHANGED debug_constraint
    /\ UNCHANGED <<cacheVars, buildVars>>

GroupingNext ==
    \/ \E debug \in BOOLEAN : ParseArgs(debug)
    \/ PrepareLayerGroupingConfig

GroupingSpec == BackendInit /\ [][GroupingNext]_vars

\* C30: prepare_layer_grouping_config raises the ValueError exactly when a
\* group holds a layer that is in a special-layer tuple and a layer that is
\* not in that tuple; otherwise it appends one template per group, in group
\* order: the template of the (last) special tuple that holds the group's
\* layers, the standard template if there is none, without 'KV2' when
\* debug_constraint is set; the template list then is as long as the group
\* list.
C30_GroupingTemplates ==
    main_pc \notin {"imported", "parsed"} =>
        LET groups == current_layer_grouping
            specials == current_special_layers
            tuple(j) == {specials[j].layers[x] : x \in 1..Len(specials[j].layers)}
            layers(g) == {groups[g][x] : x \in 1..Len(groups[g])}
            broken == \E g \in 1..Len(groups), j \in 1..Len(specials) :
                         /\ layers(g) \cap tuple(j) # {}
                         /\ layers(g) \ tuple(j) # {}
            holding(g) == {j \in 1..Len(specials) : layers(g) \subseteq tuple(j)}
            chosen(g) == IF holding(g) = {}
                         THEN <<"KV8", "K8V4", "KV4", "K4V2", "KV2">>
                         ELSE specials[CHOOSE j \in holding(g) :
                                          \A m \in holding(g) : m <= j].template
            expected(g) == IF debug_constraint
                           THEN SelectSeq(chosen(g), LAMBDA t : t # "KV2")
                           ELSE chosen(g)
        IN /\ (main_pc = "ValueError: special layer breaks the layer grouping") <=> broken
           /\ (~broken =>
                  /\ main_pc = "ok"
                  /\ Len(current_grouping_quant_template) = Len(groups)
                  /\ \A g \in 1..Len(groups) :
                        current_grouping_quant_template[g] = expected(g))

\* C30 witness: with debug_constraint set, two groups were given their
\* templates, the first the one of a special tuple, the second the standard
\* one, both without 'KV2'.
C30_Witness ==
    /\ main_pc = "ok" /\ debug_constraint
    /\ Len(current_layer_grouping) = 2
    /\ Len(current_special_layers) >= 1
    /\ current_grouping_quant_template =
          <<<<"KV8", "K4V8", "KV4", "K2V4">>, <<"KV8", "K8V4", "KV4", "K4V2">>>>

====
